---------------------------- MODULE Spec2Model ----------------------------
(***************************************************************************)
(* A model of warmup_stats' outlier summariser (outlier_summaries.py) and  *)
(* of the sparkline histogram of warmup/latex.py.                          *)
(*                                                                         *)
(* Python strings are sequences of one-character strings, so that          *)
(* str.split, str.replace and the ordering used by sorted() are computed.  *)
(* A Python dict is a sequence of <<key, value>> pairs: CPython iterates a *)
(* dict in an order that is a function of its insertion history, modelled  *)
(* here as the insertion order itself.                                     *)
(***************************************************************************)
EXTENDS Integers, Sequences, FiniteSets, TLC

(***************************************************************************)
(* Bounds of the model.                                                    *)
(***************************************************************************)
\* the most input paths given on the command line
MaxFiles == 2
\* how many times the program is run on the same command line
MaxRuns == 2
\* _histogram: the most measurements, and the largest of them (0..MaxVal)
MaxLen == 4
MaxVal == 3

(***************************************************************************)
(* Strings.                                                                *)
(***************************************************************************)
\* the characters the inputs use, in code point order
Alphabet == <<" ", ".", "1", ":", "L", "\\", "_", "a", "b", "c", "d", "e",
              "f", "g", "h", "s", "u", "v", "w", "x">>

Ord(ch) == CHOOSE i \in 1..Len(Alphabet) : Alphabet[i] = ch

\* a < b for two Python strings: the first differing character decides, and
\* a proper prefix is smaller
RECURSIVE StrLess(_, _)
StrLess(a, b) ==
    IF b = <<>> THEN FALSE
    ELSE IF a = <<>> THEN TRUE
    ELSE IF Head(a) = Head(b) THEN StrLess(Tail(a), Tail(b))
    ELSE Ord(Head(a)) < Ord(Head(b))

\* sorted(S) for a set S of strings
RECURSIVE sorted(_)
sorted(S) ==
    IF S = {} THEN <<>>
    ELSE LET m == CHOOSE x \in S : \A y \in S \ {x} : StrLess(x, y)
         IN  <<m>> \o sorted(S \ {m})

\* str.split(sep) for a one-character separator: cur is the piece being read
RECURSIVE SplitFrom(_, _, _)
SplitFrom(s, sep, cur) ==
    IF s = <<>> THEN <<cur>>
    ELSE IF Head(s) = sep THEN <<cur>> \o SplitFrom(Tail(s), sep, <<>>)
    ELSE SplitFrom(Tail(s), sep, Append(cur, Head(s)))

split(s, sep) == SplitFrom(s, sep, <<>>)

\* '_' in word.replace('_', '\\_'): every underscore becomes backslash, underscore
RECURSIVE tex_escape(_)
tex_escape(word) ==
    IF word = <<>> THEN <<>>
    ELSE (IF Head(word) = "_" THEN <<"\\", "_">> ELSE <<Head(word)>>)
         \o tex_escape(Tail(word))

(***************************************************************************)
(* Dicts.                                                                  *)
(***************************************************************************)
DictKeys(d) == [i \in 1..Len(d) |-> d[i][1]]

DictHas(d, k) == \E i \in 1..Len(d) : d[i][1] = k

DictGet(d, k) == d[CHOOSE i \in 1..Len(d) : d[i][1] = k][2]

\* a slip: a key the dict already holds keeps its value
DictSetKeepingFirst(d, k, v) ==
    IF DictHas(d, k) THEN d ELSE Append(d, <<k, v>>)

\* d[k] = v: a new key goes last, a known key keeps its place
DictSet(d, k, v) ==
    IF DictHas(d, k)
    THEN [i \in 1..Len(d) |-> IF d[i][1] = k THEN <<k, v>> ELSE d[i]]
    ELSE Append(d, <<k, v>>)


(***************************************************************************)
(* The file system: the Krun result files a run may be given.  A result    *)
(* file holds audit.uname, window_size and the three outlier collections,  *)
(* each mapping a "benchmark:vm:variant" key to a list of process          *)
(* executions, each a list of outliers (iteration numbers).                *)
(***************************************************************************)
K_fvd == <<"f", ":", "v", ":", "d">>
K_fwd == <<"f", ":", "w", ":", "d">>
K_ghve == <<"g", "_", "h", ":", "v", ":", "e">>
K_suc == <<"s", ":", "u", ":", "c">>
K_fv == <<"f", ":", "v">>
K_fvdx == <<"f", ":", "v", ":", "d", ":", "x">>

Paths == {"a.json.bz2", "a2.json.bz2", "a3.json.bz2", "b.json.bz2",
          "c.json.bz2", "d.json.bz2", "e.json.bz2", "nope.json.bz2"}

\* os.path.exists(filename)
exists(filename) == filename # "nope.json.bz2"

Blob(uname, ws, all, common, unique) ==
    [uname |-> uname, window_size |-> ws, all_outliers |-> all,
     common_outliers |-> common, unique_outliers |-> unique]

\* json.loads(file_.read()) of each existing file
read_krun_results_file(results_file) ==
    CASE results_file = "a.json.bz2" ->
           Blob(<<"L", " ", "a", " ", "1">>, 200,
                (K_fvd :> << <<1, 2>>, <<3>> >>) @@ (K_ghve :> << <<4>> >>),
                (K_fvd :> << <<1>>, <<>> >>) @@ (K_ghve :> << <<>> >>),
                (K_fvd :> << <<2>>, <<3>> >>) @@ (K_ghve :> << <<4>> >>))
      [] results_file = "a2.json.bz2" ->
           Blob(<<"L", " ", "a", ".", "x", " ", "1">>, 200,
                (K_fwd :> << <<7>>, <<8, 9>> >>),
                (K_fwd :> << <<>>, <<8>> >>),
                (K_fwd :> << <<7>>, <<9>> >>))
      [] results_file = "a3.json.bz2" ->
           Blob(<<"L", " ", "a", ".", "x", " ", "1">>, 100,
                (K_fvd :> << <<1>> >>),
                (K_fvd :> << <<1>> >>),
                (K_fvd :> << <<>> >>))
      [] results_file = "b.json.bz2" ->
           Blob(<<"L", " ", "b", ".", "d", " ", "1">>, 200,
                (K_fvd :> << <<5>> >>) @@ (K_fwd :> << <<>>, <<6>> >>)
                    @@ (K_suc :> <<>>),
                (K_fvd :> << <<5>> >>) @@ (K_fwd :> << <<6>> >>)
                    @@ (K_suc :> << <<7>> >>),
                (K_fvd :> << <<>> >>) @@ (K_fwd :> << <<>>, <<6>> >>)
                    @@ (K_suc :> << <<7>> >>))
      [] results_file = "c.json.bz2" ->
           Blob(<<"L", " ", "c", " ", "1">>, 100,
                (K_suc :> << <<>> >>),
                (K_suc :> << <<1>> >>),
                (K_suc :> << <<>> >>))
      [] results_file = "d.json.bz2" ->
           Blob(<<"L", " ", "d", " ", "1">>, 200,
                (K_fvd :> << <<2>> >>) @@ (K_fvdx :> << <<3>> >>),
                (K_fvd :> << <<>> >>) @@ (K_fvdx :> << <<3>> >>),
                (K_fvd :> << <<2>> >>) @@ (K_fvdx :> << <<>> >>))
      [] results_file = "e.json.bz2" ->
           Blob(<<"L", " ", "e", " ", "1">>, 200,
                (K_fv :> << <<2>> >>) @@ (K_ghve :> << <<3>> >>),
                (K_fv :> << <<2>> >>) @@ (K_ghve :> << <<3>> >>),
                (K_fv :> << <<>> >>) @@ (K_ghve :> << <<>> >>))

\* data['audit']['uname'].split(' ')[1], without its domain if it has one
machine_name_of(data) ==
    LET machine_name == split(data.uname, " ")[2]
    IN  IF \E i \in 1..Len(machine_name) : machine_name[i] = "."
        THEN split(machine_name, ".")[1]
        ELSE machine_name

\* the command lines: one path or more, in any order, repeats allowed
CommandLines == UNION {[1..n -> Paths] : n \in 1..MaxFiles}


(***************************************************************************)
(* State.                                                                  *)
(***************************************************************************)
VARIABLES
    json_files,       \* options.json_files[0]: the input paths
    run,              \* which run of the program over json_files this is
    prev,             \* what the run before this one produced
    pc,               \* "load", "main", "write", "done" or "failed"
    error,            \* what ended the run: the assertion or exception raised
    fileIdx,          \* get_data_dictionaries: the file the loop is at
    loaded,           \* the files read_krun_results_file has read, in order
    window_size,      \* <<>> for None, <<n>> once set
    data_dictionary,  \* machine name -> the file's data
    machineIdx,       \* main: the machine the outer loop is at
    keys,             \* main: the sorted keys of that machine still to visit
    visited,          \* main: the <<machine, key>> pairs visited, in order
    outlier_summary,
    common_summary,
    unique_summary,
    fp,               \* "none", "open" or "closed": the handle on tex_file
    disk,             \* tex_file on disk: whether it exists, and its content
    disk0,            \* tex_file on disk when the run started
    wpc,              \* write_results_as_latex: the next write
    wsec,             \* the section being written
    wtab,             \* the table of that section being written
    wrows             \* the names of that table still to write

VARIABLES
    hdata,            \* _histogram's argument data: the measurements
    hpc,              \* "histogram", "cumulate", "sparkline", "done", "failed"
    histogram,        \* the counts of the bins
    total,
    normed,           \* value / total of each bin, as <<value, total>>
    median_index,
    cum_freq,
    index,            \* the index of the for loop that runs (from 0)
    median_bin_index, \* <<>> while unbound, <<index>> once set
    sparkline         \* the lines of the sparkline, as <<kind, x, y>>

histVars == <<hdata, hpc, histogram, total, normed, median_index, cum_freq,
              index, median_bin_index, sparkline>>

aggVars == <<json_files, run, prev, pc, error, fileIdx, loaded, window_size,
             data_dictionary, machineIdx, keys, visited, outlier_summary,
             common_summary, unique_summary, fp, disk, disk0, wpc, wsec,
             wtab, wrows>>

loadVars == <<fileIdx, loaded, window_size, data_dictionary>>
mainVars == <<machineIdx, keys, visited, outlier_summary, common_summary,
              unique_summary>>
writeVars == <<fp, disk, wpc, wsec, wtab, wrows>>

\* {'benchmarks':dict(), 'vms':dict(), 'variants':dict()}
EmptySummary == [benchmarks |-> <<>>, vms |-> <<>>, variants |-> <<>>]

NoPrev == [outlier_summary |-> EmptySummary, common_summary |-> EmptySummary,
           unique_summary |-> EmptySummary, document |-> <<>>,
           visited |-> <<>>]

\* the files the destination may hold before the first run
InitialDisks == {[exists |-> FALSE, content |-> <<>>],
                 [exists |-> TRUE, content |-> << <<"old", <<>>, 0>> >>]}

AggStart ==
    /\ pc = "load"
    /\ error = "none"
    /\ fileIdx = 1
    /\ loaded = <<>>
    /\ window_size = <<>>
    /\ data_dictionary = <<>>
    /\ machineIdx = 0
    /\ keys = <<>>
    /\ visited = <<>>
    /\ outlier_summary = EmptySummary
    /\ common_summary = EmptySummary
    /\ unique_summary = EmptySummary
    /\ fp = "none"
    /\ wpc = "header"
    /\ wsec = 1
    /\ wtab = 1
    /\ wrows = <<>>

AggInit ==
    /\ json_files \in CommandLines
    /\ run = 1
    /\ prev = NoPrev
    /\ disk \in InitialDisks
    /\ disk0 = disk
    /\ AggStart

(***************************************************************************)
(* get_data_dictionaries.                                                  *)
(***************************************************************************)
\* a slip: every path is tested before the first file is read
all_paths_checked(files, i) == \A j \in 1..Len(files) : exists(files[j])

\* assert os.path.exists(filename): the file the loop is at exists
path_checked(files, i) == exists(files[i])

\* one turn of the loop over json_files
LoadFile ==
    /\ pc = "load"
    /\ fileIdx <= Len(json_files)
    /\ LET filename == json_files[fileIdx]
           data == read_krun_results_file(filename)
           machine_name == machine_name_of(data)
       IN  IF ~path_checked(json_files, fileIdx)
           THEN /\ pc' = "failed"
                /\ error' = "AssertionError: file does not exist"
                /\ UNCHANGED loadVars
           ELSE /\ loaded' = Append(loaded, filename)
                /\ data_dictionary' = DictSet(data_dictionary, machine_name, data)
                /\ IF window_size = <<>>
                   THEN /\ window_size' = <<data.window_size>>
                        /\ fileIdx' = fileIdx + 1
                        /\ UNCHANGED <<pc, error>>
                   ELSE IF window_size[1] = data.window_size
                   THEN /\ fileIdx' = fileIdx + 1
                        /\ UNCHANGED <<pc, error, window_size>>
                   ELSE /\ pc' = "failed"
                        /\ error' = "AssertionError: different window sizes"
                        /\ UNCHANGED <<fileIdx, window_size>>
    /\ UNCHANGED <<json_files, run, prev, disk0>>
    /\ UNCHANGED mainVars
    /\ UNCHANGED writeVars
    /\ UNCHANGED histVars

\* a slip: main opens tex_file for writing before it aggregates
EnterMainOpeningOutput ==
    /\ pc = "load"
    /\ fileIdx > Len(json_files)
    /\ pc' = "main"
    /\ outlier_summary' = EmptySummary
    /\ common_summary' = EmptySummary
    /\ unique_summary' = EmptySummary
    /\ machineIdx' = 0
    /\ keys' = <<>>
    /\ fp' = "open"
    /\ disk' = [exists |-> TRUE, content |-> <<>>]
    /\ UNCHANGED <<json_files, run, prev, disk0, error, visited>>
    /\ UNCHANGED loadVars
    /\ UNCHANGED <<wpc, wsec, wtab, wrows>>
    /\ UNCHANGED histVars

\* the loop is over: main(data_dcts, window_size, latex_file) is called and
\* makes its three summaries
EnterMain ==
    /\ pc = "load"
    /\ fileIdx > Len(json_files)
    /\ pc' = "main"
    /\ outlier_summary' = EmptySummary
    /\ common_summary' = EmptySummary
    /\ unique_summary' = EmptySummary
    /\ machineIdx' = 0
    /\ keys' = <<>>
    /\ UNCHANGED <<json_files, run, prev, disk0, error, visited>>
    /\ UNCHANGED loadVars
    /\ UNCHANGED writeVars
    /\ UNCHANGED histVars

(***************************************************************************)
(* main.                                                                   *)
(***************************************************************************)
\* a slip: the keys are not sorted, and come in the dict's own order (here
\* the reverse of the sorted one)
RECURSIVE Reverse(_)
Reverse(q) == IF q = <<>> THEN <<>> ELSE Append(Reverse(Tail(q)), Head(q))

machine_keys_unsorted(data) == Reverse(sorted(DOMAIN data.all_outliers))

\* sorted(data_dcts[machine]['all_outliers'].keys())
machine_keys(data) == sorted(DOMAIN data.all_outliers)

\* for machine in data_dcts: the next machine, and its keys
NextMachine ==
    /\ pc = "main"
    /\ keys = <<>>
    /\ machineIdx < Len(data_dictionary)
    /\ machineIdx' = machineIdx + 1
    /\ keys' = machine_keys(data_dictionary[machineIdx + 1][2])
    /\ UNCHANGED <<json_files, run, prev, disk0, pc, error, visited,
                   outlier_summary, common_summary, unique_summary>>
    /\ UNCHANGED loadVars
    /\ UNCHANGED writeVars
    /\ UNCHANGED histVars

\* if name not in outlier_summary[sub]: summary[sub][name] = 0, where present
\* says whether outlier_summary[sub] holds the name
init_name(summary, sub, name, present) ==
    IF present THEN summary
    ELSE [summary EXCEPT ![sub] = DictSet(@, name, 0)]

\* the three tests of lines 81-92 applied to one of the three summaries
init_names(summary, bench, vm, variant) ==
    LET s1 == init_name(summary, "benchmarks", bench,
                        DictHas(outlier_summary.benchmarks, bench))
        s2 == init_name(s1, "vms", vm, DictHas(outlier_summary.vms, vm))
    IN  init_name(s2, "variants", variant,
                  DictHas(outlier_summary.variants, variant))

\* a slip: only a key without executions is passed over
skip_key_without_crash_test(all_executions) == Len(all_executions) = 0

\* len(all_executions) == 0 (benchmark skipped) or len(all_executions[0]) == 0
\* (benchmark crashed): the key is passed over
skip_key(all_executions) ==
    IF Len(all_executions) = 0 THEN TRUE
    ELSE Len(all_executions[1]) = 0

\* summary[sub][name] += n
add_count(summary, sub, name, n) ==
    [summary EXCEPT ![sub] = DictSet(@, name, DictGet(@, name) + n)]

\* a slip: the vm is counted twice and the variant not at all
add_outlier_list_vm_twice(summary, bench, vm, variant, outlier_list) ==
    LET s1 == add_count(summary, "benchmarks", bench, Len(outlier_list))
        s2 == add_count(s1, "vms", vm, Len(outlier_list))
    IN  add_count(s2, "vms", vm, Len(outlier_list))

\* the body of one "for outlier_list in executions" loop
add_outlier_list(summary, bench, vm, variant, outlier_list) ==
    LET s1 == add_count(summary, "benchmarks", bench, Len(outlier_list))
        s2 == add_count(s1, "vms", vm, Len(outlier_list))
    IN  add_count(s2, "variants", variant, Len(outlier_list))

\* for outlier_list in executions: ...
RECURSIVE add_executions(_, _, _, _, _)
add_executions(summary, bench, vm, variant, executions) ==
    IF executions = <<>> THEN summary
    ELSE add_executions(
             add_outlier_list(summary, bench, vm, variant, Head(executions)),
             bench, vm, variant, Tail(executions))

\* lines 81-92 for each of the three summaries
inited_outlier(bench, vm, variant) ==
    init_names(outlier_summary, bench, vm, variant)

\* a slip: line 87 sets outlier_summary['vms'][vm] again, and common_summary
\* never gets the vm
inited_common_without_vm(bench, vm, variant) ==
    LET s1 == init_name(common_summary, "benchmarks", bench,
                        DictHas(outlier_summary.benchmarks, bench))
    IN  init_name(s1, "variants", variant,
                  DictHas(outlier_summary.variants, variant))

inited_common(bench, vm, variant) ==
    init_names(common_summary, bench, vm, variant)

inited_unique(bench, vm, variant) ==
    init_names(unique_summary, bench, vm, variant)

\* a slip: the key is tested before its names are put in
skipped_summary_untouched(before, inited) == before

\* continue: what a key passed over leaves of a summary, given the summary
\* before the key and the summary with the key's names put in by lines 81-92
skipped_summary(before, inited) == inited

\* summary[sub][name] += n raises KeyError when the summary lacks a name
key_error(summary, bench, vm, variant) ==
    ~ /\ DictHas(summary.benchmarks, bench)
      /\ DictHas(summary.vms, vm)
      /\ DictHas(summary.variants, variant)

\* one turn of the loop over the keys of a machine
MainKey ==
    /\ pc = "main"
    /\ keys # <<>>
    /\ LET key == Head(keys)
           parts == split(key, ":")
           data == data_dictionary[machineIdx][2]
       IN  IF Len(parts) # 3
           THEN \* bench, vm, variant = key.split(':') raises ValueError
                /\ pc' = "failed"
                /\ error' = "ValueError: unpack"
                /\ UNCHANGED mainVars
           ELSE IF \/ key \notin DOMAIN data.common_outliers
                   \/ key \notin DOMAIN data.unique_outliers
           THEN /\ pc' = "failed"
                /\ error' = "KeyError"
                /\ UNCHANGED mainVars
           ELSE LET bench == parts[1]
                    vm == parts[2]
                    variant == parts[3]
                    all_executions == data.all_outliers[key]
                    common_executions == data.common_outliers[key]
                    unique_executions == data.unique_outliers[key]
                    o1 == inited_outlier(bench, vm, variant)
                    c1 == inited_common(bench, vm, variant)
                    u1 == inited_unique(bench, vm, variant)
                IN  IF skip_key(all_executions)
                    THEN /\ outlier_summary' =
                               skipped_summary(outlier_summary, o1)
                         /\ common_summary' =
                               skipped_summary(common_summary, c1)
                         /\ unique_summary' =
                               skipped_summary(unique_summary, u1)
                         /\ keys' = Tail(keys)
                         /\ visited' =
                               Append(visited,
                                      <<data_dictionary[machineIdx][1], key>>)
                         /\ UNCHANGED <<pc, error, machineIdx>>
                    ELSE IF \/ key_error(o1, bench, vm, variant)
                            \/ key_error(c1, bench, vm, variant)
                            \/ key_error(u1, bench, vm, variant)
                    THEN /\ pc' = "failed"
                         /\ error' = "KeyError"
                         /\ UNCHANGED mainVars
                    ELSE /\ outlier_summary' =
                               add_executions(o1, bench, vm, variant,
                                              all_executions)
                         /\ common_summary' =
                               add_executions(c1, bench, vm, variant,
                                              common_executions)
                         /\ unique_summary' =
                               add_executions(u1, bench, vm, variant,
                                              unique_executions)
                         /\ keys' = Tail(keys)
                         /\ visited' =
                               Append(visited,
                                      <<data_dictionary[machineIdx][1], key>>)
                         /\ UNCHANGED <<pc, error, machineIdx>>
    /\ UNCHANGED <<json_files, run, prev, disk0>>
    /\ UNCHANGED loadVars
    /\ UNCHANGED writeVars
    /\ UNCHANGED histVars

(***************************************************************************)
(* write_results_as_latex.  What fp.write is given is a chunk              *)
(* <<kind, text, number>>: the template written, the string put into it    *)
(* (a list of string pieces) and the number put into it (0 when none).     *)
(***************************************************************************)
\* the (section_heading, summary) pairs of the sections tuple
sections ==
    << <<"All outliers", outlier_summary>>,
       <<"Common outliers", common_summary>>,
       <<"Unique outliers (only appear in one process execution)",
         unique_summary>> >>

\* summary['benchmarks'], summary['vms'], summary['variants'], in the order
\* the tables are written, and the column title of each
table_subs == <<"benchmarks", "vms", "variants">>
table_titles == <<"Benchmark", "Virtual machine", "Language variant">>

fp_write(chunk) == disk' = [disk EXCEPT !.content = Append(@, chunk)]

\* a slip: the label is escaped twice
row_chunk_escaped_twice(summary, sub, name) ==
    <<"row", tex_escape(tex_escape(name)), DictGet(summary[sub], name)>>

\* '%s & %d \\\\ \n' % (_tex_escape(name), summary[sub][name])
row_chunk(summary, sub, name) ==
    <<"row", tex_escape(name), DictGet(summary[sub], name)>>

\* main calls write_results_as_latex once both loops are over; it opens
\* tex_file for writing, which creates or empties it
CallWrite ==
    /\ pc = "main"
    /\ keys = <<>>
    /\ machineIdx = Len(data_dictionary)
    /\ pc' = "write"
    /\ fp' = "open"
    /\ disk' = [exists |-> TRUE, content |-> <<>>]
    /\ wpc' = "header"
    /\ wsec' = 1
    /\ wtab' = 1
    /\ wrows' = <<>>
    /\ UNCHANGED <<json_files, run, prev, disk0, error>>
    /\ UNCHANGED loadVars
    /\ UNCHANGED mainVars
    /\ UNCHANGED histVars

\* fp.write(__LATEX_HEADER(str(window_size)))
WriteHeader ==
    /\ pc = "write"
    /\ wpc = "header"
    /\ fp_write(<<"header", <<>>, window_size[1]>>)
    /\ wpc' = "section"
    /\ UNCHANGED <<json_files, run, prev, disk0, pc, error, fp, wsec, wtab,
                   wrows>>
    /\ UNCHANGED loadVars
    /\ UNCHANGED mainVars
    /\ UNCHANGED histVars

\* fp.write(__LATEX_SECTION(section_heading))
WriteSection ==
    /\ pc = "write"
    /\ wpc = "section"
    /\ fp_write(<<"section", <<sections[wsec][1]>>, 0>>)
    /\ wpc' = "start_table"
    /\ wtab' = 1
    /\ UNCHANGED <<json_files, run, prev, disk0, pc, error, fp, wsec, wrows>>
    /\ UNCHANGED loadVars
    /\ UNCHANGED mainVars
    /\ UNCHANGED histVars

\* fp.write(__LATEX_START_TABLE(title)), and the for loop over the table's
\* sub-mapping starts
WriteStartTable ==
    /\ pc = "write"
    /\ wpc = "start_table"
    /\ fp_write(<<"start_table", <<table_titles[wtab]>>, 0>>)
    /\ wrows' = DictKeys(sections[wsec][2][table_subs[wtab]])
    /\ wpc' = "rows"
    /\ UNCHANGED <<json_files, run, prev, disk0, pc, error, fp, wsec, wtab>>
    /\ UNCHANGED loadVars
    /\ UNCHANGED mainVars
    /\ UNCHANGED histVars

\* one turn of the for loop: one row
WriteRow ==
    /\ pc = "write"
    /\ wpc = "rows"
    /\ wrows # <<>>
    /\ fp_write(row_chunk(sections[wsec][2], table_subs[wtab], Head(wrows)))
    /\ wrows' = Tail(wrows)
    /\ UNCHANGED <<json_files, run, prev, disk0, pc, error, fp, wpc, wsec,
                   wtab>>
    /\ UNCHANGED loadVars
    /\ UNCHANGED mainVars
    /\ UNCHANGED histVars

\* fp.write(__LATEX_END_TABLE); then the next table, the next section or the
\* footer
WriteEndTable ==
    /\ pc = "write"
    /\ wpc = "rows"
    /\ wrows = <<>>
    /\ fp_write(<<"end_table", <<>>, 0>>)
    /\ IF wtab < Len(table_subs)
       THEN /\ wtab' = wtab + 1
            /\ wpc' = "start_table"
            /\ wsec' = wsec
       ELSE IF wsec < Len(sections)
       THEN /\ wsec' = wsec + 1
            /\ wpc' = "section"
            /\ wtab' = wtab
       ELSE /\ wpc' = "footer"
            /\ UNCHANGED <<wsec, wtab>>
    /\ UNCHANGED <<json_files, run, prev, disk0, pc, error, fp, wrows>>
    /\ UNCHANGED loadVars
    /\ UNCHANGED mainVars
    /\ UNCHANGED histVars

\* fp.write(__LATEX_FOOTER); the with block closes fp and main returns
WriteFooter ==
    /\ pc = "write"
    /\ wpc = "footer"
    /\ fp_write(<<"footer", <<>>, 0>>)
    /\ fp' = "closed"
    /\ pc' = "done"
    /\ UNCHANGED <<json_files, run, prev, disk0, error, wpc, wsec, wtab, wrows>>
    /\ UNCHANGED loadVars
    /\ UNCHANGED mainVars
    /\ UNCHANGED histVars

\* what a finished run leaves: its summaries, its document, its visits
Produced ==
    [outlier_summary |-> outlier_summary, common_summary |-> common_summary,
     unique_summary |-> unique_summary, document |-> disk.content,
     visited |-> visited]

\* the program is run again on the same command line
RunAgain ==
    /\ pc = "done"
    /\ run < MaxRuns
    /\ run' = run + 1
    /\ prev' = Produced
    /\ disk0' = disk
    /\ pc' = "load"
    /\ error' = "none"
    /\ fileIdx' = 1
    /\ loaded' = <<>>
    /\ window_size' = <<>>
    /\ data_dictionary' = <<>>
    /\ machineIdx' = 0
    /\ keys' = <<>>
    /\ visited' = <<>>
    /\ outlier_summary' = EmptySummary
    /\ common_summary' = EmptySummary
    /\ unique_summary' = EmptySummary
    /\ fp' = "none"
    /\ wpc' = "header"
    /\ wsec' = 1
    /\ wtab' = 1
    /\ wrows' = <<>>
    /\ UNCHANGED <<json_files, disk>>
    /\ UNCHANGED histVars

(***************************************************************************)
(* _histogram (warmup/latex.py).  The measurements are whole numbers; an   *)
(* edge of a bin is kept doubled, so that the half added to each side of   *)
(* an empty range stays whole.  '%.2f' is a number of hundredths.          *)
(***************************************************************************)
\* bins=10
NumBins == 10

RECURSIVE SeqMin(_)
SeqMin(q) ==
    IF Len(q) = 1 THEN q[1]
    ELSE LET m == SeqMin(Tail(q)) IN IF Head(q) < m THEN Head(q) ELSE m

RECURSIVE SeqMax(_)
SeqMax(q) ==
    IF Len(q) = 1 THEN q[1]
    ELSE LET m == SeqMax(Tail(q)) IN IF Head(q) > m THEN Head(q) ELSE m

\* numpy's range of the bins, doubled: (min, max), or (min - 0.5, max + 0.5)
\* when the two are equal
first_edge2(q) == IF SeqMin(q) = SeqMax(q) THEN 2 * SeqMin(q) - 1 ELSE 2 * SeqMin(q)
last_edge2(q) == IF SeqMin(q) = SeqMax(q) THEN 2 * SeqMax(q) + 1 ELSE 2 * SeqMax(q)

\* a slip: the last bin is half open too, and the largest value falls out
bin_of_half_open(v, lo2, hi2) == ((2 * v - lo2) * NumBins) \div (hi2 - lo2)

\* the bin (from 0) of value v: the bins have equal width, and the last one
\* holds its right edge
bin_of(v, lo2, hi2) ==
    LET f == ((2 * v - lo2) * NumBins) \div (hi2 - lo2)
    IN  IF f = NumBins THEN NumBins - 1 ELSE f

\* numpy.histogram(data, bins=10)[0]
numpy_histogram(q) ==
    [b \in 1..NumBins |->
        Cardinality({i \in 1..Len(q) :
                        bin_of(q[i], first_edge2(q), last_edge2(q)) = b - 1})]

\* math.fsum(histogram)
RECURSIVE fsum(_)
fsum(q) == IF q = <<>> THEN 0 ELSE Head(q) + fsum(Tail(q))

\* '%.2f' % (num / den), in hundredths: the nearest, and the even one of two
\* that are as near
Hundredths(num, den) ==
    LET q == (num * 100) \div den
        r == (num * 100) % den
    IN  IF 2 * r > den THEN q + 1
        ELSE IF 2 * r = den THEN q + (q % 2)
        ELSE q

\* a slip: the median bin must pass the lower bound, not only reach it
median_passed(cum, median) == cum > median

\* if cum_freq >= median_index
median_reached(cum, median) == cum >= median

\* the measurements _histogram may be given: one or more
Measurements == UNION {[1..n -> 0..MaxVal] : n \in 1..MaxLen}

HistStart ==
    /\ hpc = "histogram"
    /\ histogram = <<>>
    /\ total = 0
    /\ normed = <<>>
    /\ median_index = 0
    /\ cum_freq = 0
    /\ index = 0
    /\ median_bin_index = <<>>
    /\ sparkline = <<>>

\* lines 196-202
Histogram ==
    /\ hpc = "histogram"
    /\ LET h == numpy_histogram(hdata)
       IN  /\ histogram' = h
           /\ total' = fsum(h)
           /\ normed' = [i \in 1..Len(h) |-> <<h[i], fsum(h)>>]
    /\ median_index' = Len(hdata) \div 2
    /\ cum_freq' = 0
    /\ index' = 0
    /\ hpc' = "cumulate"
    /\ UNCHANGED <<hdata, median_bin_index, sparkline>>
    /\ UNCHANGED aggVars

\* one turn of the loop of lines 203-207; the loop over, line 208 starts the
\* sparkline
Cumulate ==
    /\ hpc = "cumulate"
    /\ index < Len(histogram)
    /\ cum_freq' = cum_freq + histogram[index + 1]
    /\ IF median_reached(cum_freq + histogram[index + 1], median_index)
       THEN /\ median_bin_index' = <<index>>
            /\ index' = 0
            /\ hpc' = "sparkline"
            /\ sparkline' = << <<"begin", 0, 0>> >>
       ELSE IF index + 1 = Len(histogram)
       THEN /\ index' = 0
            /\ hpc' = "sparkline"
            /\ sparkline' = << <<"begin", 0, 0>> >>
            /\ UNCHANGED median_bin_index
       ELSE /\ index' = index + 1
            /\ UNCHANGED <<hpc, median_bin_index, sparkline>>
    /\ UNCHANGED <<hdata, histogram, total, normed, median_index>>
    /\ UNCHANGED aggVars

\* '\\sparkspike %.2f %.2f' % ((index + 1) / size, value)
sparkspike(i, value) ==
    <<"sparkspike", Hundredths(i + 1, Len(histogram)),
      Hundredths(value[1], value[2])>>

\* one turn of the loop of lines 209-216; reading median_bin_index while it
\* is unbound raises NameError
Spike ==
    /\ hpc = "sparkline"
    /\ index < Len(normed)
    /\ IF median_bin_index = <<>>
       THEN /\ hpc' = "failed"
            /\ UNCHANGED <<sparkline, index>>
       ELSE /\ sparkline' =
                 IF index = median_bin_index[1]
                 THEN sparkline \o << <<"color_red", 0, 0>>,
                                      sparkspike(index, normed[index + 1]),
                                      <<"color_black", 0, 0>> >>
                 ELSE Append(sparkline, sparkspike(index, normed[index + 1]))
            /\ index' = index + 1
            /\ UNCHANGED hpc
    /\ UNCHANGED <<hdata, histogram, total, normed, median_index, cum_freq,
                   median_bin_index>>
    /\ UNCHANGED aggVars

\* lines 217-219
Finish ==
    /\ hpc = "sparkline"
    /\ index = Len(normed)
    /\ sparkline' = sparkline \o << <<"sparkbottomline", 0, 0>>,
                                    <<"end", 0, 0>> >>
    /\ hpc' = "done"
    /\ UNCHANGED <<hdata, histogram, total, normed, median_index, cum_freq,
                   index, median_bin_index>>
    /\ UNCHANGED aggVars

Next ==
    \/ LoadFile
    \/ EnterMain
    \/ NextMachine
    \/ MainKey
    \/ CallWrite
    \/ WriteHeader
    \/ WriteSection
    \/ WriteStartTable
    \/ WriteRow
    \/ WriteEndTable
    \/ WriteFooter
    \/ RunAgain

vars == <<aggVars, histVars>>

\* the summariser runs, and _histogram is not called
Init ==
    /\ AggInit
    /\ hdata = <<>>
    /\ HistStart

Spec == Init /\ [][Next]_vars

HistNext ==
    \/ Histogram
    \/ Cumulate
    \/ Spike
    \/ Finish

\* _histogram is called on some measurements, and the summariser does not run
HistInit ==
    /\ hdata \in Measurements
    /\ HistStart
    /\ json_files = <<>>
    /\ run = 1
    /\ prev = NoPrev
    /\ disk = [exists |-> FALSE, content |-> <<>>]
    /\ disk0 = disk
    /\ AggStart

HistSpec == HistInit /\ [][HistNext]_vars


(***************************************************************************)
(* What the properties below speak of.                                     *)
(***************************************************************************)
Summaries == <<outlier_summary, common_summary, unique_summary>>
Collections == <<"all_outliers", "common_outliers", "unique_outliers">>

\* the <<machine index, key>> pairs of the result sets that are aggregated
MachineKeyPairs ==
    UNION {{<<i, k>> : k \in DOMAIN data_dictionary[i][2].all_outliers} :
           i \in 1..Len(data_dictionary)}

DataOf(p) == data_dictionary[p[1]][2]

\* the key's benchmark (1), vm (2) or variant (3)
Component(key, n) == split(key, ":")[n]

\* a key is passed over when it has no execution or an empty first one
KeySkipped(p) ==
    \/ DataOf(p).all_outliers[p[2]] = <<>>
    \/ Head(DataOf(p).all_outliers[p[2]]) = <<>>

\* the number of outliers in a list of executions
RECURSIVE Occurrences(_)
Occurrences(executions) ==
    IF executions = <<>> THEN 0
    ELSE Len(Head(executions)) + Occurrences(Tail(executions))

RECURSIVE SumOccurrences(_, _)
SumOccurrences(pairs, collection) ==
    IF pairs = {} THEN 0
    ELSE LET p == CHOOSE q \in pairs : TRUE
         IN  Occurrences(DataOf(p)[collection][p[2]])
             + SumOccurrences(pairs \ {p}, collection)

NameSet(d) == {d[i][1] : i \in 1..Len(d)}

RECURSIVE SumCounts(_)
SumCounts(d) == IF d = <<>> THEN 0 ELSE Head(d)[2] + SumCounts(Tail(d))

Aggregated == pc \in {"write", "done"}

(***************************************************************************)
(* C1.  A run that fails (a missing path, two window sizes, a key that     *)
(* does not split into three) fails before the destination is opened: the  *)
(* handle was never opened and the file is as it was when the run started. *)
(***************************************************************************)
C1_FailureBeforeOutput ==
    pc = "failed" => fp = "none" /\ disk = disk0

\* a run that failed on a malformed key after it had aggregated another key,
\* with a destination that existed
C1_Witness ==
    /\ pc = "failed"
    /\ error = "ValueError: unpack"
    /\ visited # <<>>
    /\ disk0.exists

(***************************************************************************)
(* C2.  Once all machines are processed, each count of each sub-mapping of *)
(* each category is the sum, over the machines and their keys that carry   *)
(* the name and are not passed over, of the lengths of the executions the  *)
(* category's collection has for the key; and no such key is left out.     *)
(***************************************************************************)
C2_CountsAreSums ==
    Aggregated =>
        \A c \in 1..3 : \A n \in 1..3 :
            LET d == Summaries[c][table_subs[n]]
            IN  /\ \A j \in 1..Len(d) :
                     d[j][2] = SumOccurrences(
                                  {p \in MachineKeyPairs :
                                      /\ Component(p[2], n) = d[j][1]
                                      /\ ~KeySkipped(p)},
                                  Collections[c])
                /\ \A p \in MachineKeyPairs :
                     ~KeySkipped(p) => DictHas(d, Component(p[2], n))

\* two machines aggregated, with a key that only one of them has and that
\* counts, and a key passed over although a later execution and its common
\* collection hold outliers
C2_Witness ==
    /\ pc = "done"
    /\ Len(data_dictionary) = 2
    /\ \E p \in MachineKeyPairs :
         /\ ~KeySkipped(p)
         /\ \A q \in MachineKeyPairs : q[1] # p[1] => q[2] # p[2]
         /\ Occurrences(DataOf(p).all_outliers[p[2]]) > 0
    /\ \E p \in MachineKeyPairs :
         /\ KeySkipped(p)
         /\ Occurrences(DataOf(p).all_outliers[p[2]]) > 0
         /\ Occurrences(DataOf(p).common_outliers[p[2]]) > 0

C4_SameKeySets ==
    \A n \in 1..3 :
        /\ NameSet(outlier_summary[table_subs[n]])
             = NameSet(common_summary[table_subs[n]])
        /\ NameSet(outlier_summary[table_subs[n]])
             = NameSet(unique_summary[table_subs[n]])

\* in the middle of an aggregation, with names in and counts that differ
\* between the categories
C4_Witness ==
    /\ pc = "main"
    /\ keys # <<>>
    /\ outlier_summary.vms # <<>>
    /\ SumCounts(outlier_summary.vms) # SumCounts(common_summary.vms)
    /\ SumCounts(common_summary.vms) # SumCounts(unique_summary.vms)

Underscores(name, k) == Cardinality({i \in 1..k : name[i] = "_"})

\* label is name with a backslash put before each underscore, and no more
EscapedOnce(label, name) ==
    /\ Len(label) = Len(name) + Underscores(name, Len(name))
    /\ \A i \in 1..Len(name) :
         /\ label[i + Underscores(name, i)] = name[i]
         /\ name[i] = "_" => label[i + Underscores(name, i) - 1] = "\\"

\* a table as it should be written, its rows carrying the raw names
TableExpected(d, title) ==
    << <<"start_table", <<title>>, 0>> >>
    \o [i \in 1..Len(d) |-> <<"row", d[i][1], d[i][2]>>]
    \o << <<"end_table", <<>>, 0>> >>

SectionExpected(summary, heading) ==
    << <<"section", <<heading>>, 0>> >>
    \o TableExpected(summary.benchmarks, "Benchmark")
    \o TableExpected(summary.vms, "Virtual machine")
    \o TableExpected(summary.variants, "Language variant")

DocumentExpected ==
    << <<"header", <<>>, window_size[1]>> >>
    \o SectionExpected(outlier_summary, "All outliers")
    \o SectionExpected(common_summary, "Common outliers")
    \o SectionExpected(unique_summary,
           "Unique outliers (only appear in one process execution)")
    \o << <<"footer", <<>>, 0>> >>

\* what is written so far is the start of the expected document, and all of
\* it once the run is done
DocumentInOrder ==
    LET doc == disk.content
        exp == DocumentExpected
    IN  /\ Len(doc) <= Len(exp)
        /\ pc = "done" => Len(doc) = Len(exp)
        /\ \A i \in 1..Len(doc) :
             /\ doc[i][1] = exp[i][1]
             /\ doc[i][3] = exp[i][3]
             /\ IF exp[i][1] = "row"
                THEN EscapedOnce(doc[i][2], exp[i][2])
                ELSE doc[i][2] = exp[i][2]

(***************************************************************************)
(* C8.  The document is the preamble with the window size, then the        *)
(* sections of all, common and unique outliers, each with the benchmark,   *)
(* the vm and the variant table, then the footer; a table has one row per  *)
(* name of its sub-mapping, in the mapping's order, with the name escaped  *)
(* once and its count; and rendering leaves the summaries as they were.    *)
(***************************************************************************)
C8_DocumentOrder ==
    [][ /\ pc = "write" => Summaries' = Summaries
        /\ pc' \in {"write", "done"} => DocumentInOrder' ]_vars

\* a finished document with a table of two rows and an escaped label
C8_Witness ==
    /\ pc = "done"
    /\ Len(outlier_summary.benchmarks) >= 2
    /\ \E i \in 1..Len(disk.content) :
         /\ disk.content[i][1] = "row"
         /\ \E j \in 1..Len(disk.content[i][2]) : disk.content[i][2][j] = "\\"

MissingInput == pc = "failed" /\ error = "AssertionError: file does not exist"

(***************************************************************************)
(* C9, as claimed.  When a run fails on a missing path, no file has been   *)
(* read.                                                                   *)
(***************************************************************************)
C9_NothingLoadedBeforeFailure ==
    MissingInput => loaded = <<>>

(***************************************************************************)
(* C9, amended.  Each path is tested just before its file is read: when a  *)
(* run fails on a missing path, the files read are exactly the paths given *)
(* before the first missing one, and neither that file nor a later one.    *)
(***************************************************************************)
C9_LoadedUpToMissingPath ==
    MissingInput =>
        \E i \in 1..Len(json_files) :
            /\ ~exists(json_files[i])
            /\ \A j \in 1..(i - 1) : exists(json_files[j])
            /\ loaded = SubSeq(json_files, 1, i - 1)

\* a run that failed on a missing path after it had read a file
C9_Witness ==
    /\ MissingInput
    /\ loaded # <<>>

(***************************************************************************)
(* C10.  After every key, and in the result, the counts of a category's    *)
(* benchmarks, of its vms and of its variants have the same sum.           *)
(***************************************************************************)
C10_SameTotals ==
    \A c \in 1..3 :
        /\ SumCounts(Summaries[c].benchmarks) = SumCounts(Summaries[c].vms)
        /\ SumCounts(Summaries[c].benchmarks) = SumCounts(Summaries[c].variants)

\* in the middle of an aggregation, outliers counted under one benchmark and
\* several vms
C10_Witness ==
    /\ pc = "main"
    /\ SumCounts(unique_summary.benchmarks) > 0
    /\ Len(unique_summary.benchmarks) < Len(unique_summary.vms)


\* how often each value occurs
Occurs(v) == Cardinality({i \in 1..Len(hdata) : hdata[i] = v})

ValuesOf == {hdata[i] : i \in 1..Len(hdata)}

RECURSIVE SumOccurs(_)
SumOccurs(vs) ==
    IF vs = {} THEN 0
    ELSE LET v == CHOOSE w \in vs : TRUE IN Occurs(v) + SumOccurs(vs \ {v})

\* the values at or below bin b (from 0), each as often as it occurs
RunningTotal(b) ==
    SumOccurs({v \in ValuesOf :
                  bin_of(v, first_edge2(hdata), last_edge2(hdata)) <= b})

IsMedianBin(b) ==
    /\ RunningTotal(b) >= Len(hdata) \div 2
    /\ \A k \in 0..(b - 1) : RunningTotal(k) < Len(hdata) \div 2

RedAt == {i \in 1..Len(sparkline) : sparkline[i][1] = "color_red"}
BlackAt == {i \in 1..Len(sparkline) : sparkline[i][1] = "color_black"}

(***************************************************************************)
(* C6.  _histogram never fails for want of a median bin, and its finished  *)
(* sparkline colours exactly one spike red: that of the lowest bin at      *)
(* which the running total of the counts reaches floor(len(data) / 2), a   *)
(* bin fixed by how often each value occurs, not by the order of the       *)
(* values; black is set again right after that spike.                      *)
(***************************************************************************)
C6_MedianBucket ==
    /\ hpc # "failed"
    /\ hpc = "done" =>
         /\ Cardinality(RedAt) = 1
         /\ \A i \in RedAt :
              /\ sparkline[i + 1][1] = "sparkspike"
              /\ \E b \in 0..(NumBins - 1) :
                   /\ IsMedianBin(b)
                   /\ b = Cardinality({j \in 1..i : sparkline[j][1] = "sparkspike"})
              /\ BlackAt = {i + 2}

\* a finished sparkline whose median bin is neither the first nor the last,
\* for values that are not in order
C6_Witness ==
    /\ hpc = "done"
    /\ \E i \in 1..(Len(hdata) - 1) : hdata[i] > hdata[i + 1]
    /\ median_bin_index # <<>>
    /\ median_bin_index[1] > 0
    /\ median_bin_index[1] < NumBins - 1

RECURSIVE SumNumerators(_)
SumNumerators(q) ==
    IF q = <<>> THEN 0 ELSE Head(q)[1] + SumNumerators(Tail(q))

SpikesAt == {i \in 1..Len(sparkline) : sparkline[i][1] = "sparkspike"}

(***************************************************************************)
(* C7.  For one measurement or more, all equal or not, _histogram does not *)
(* fail and has 10 bins; their counts sum to len(data), so the normed      *)
(* values, each a count over that sum, sum to 1; and the spike of bin i    *)
(* is put at (i + 1) / 10.                                                 *)
(***************************************************************************)
C7_TenBuckets ==
    /\ hpc # "failed"
    /\ hpc \in {"cumulate", "sparkline", "done"} =>
         /\ Len(histogram) = 10
         /\ fsum(histogram) = Len(hdata)
         /\ Len(normed) = 10
         /\ \A i \in 1..Len(normed) : normed[i][2] = SumNumerators(normed)
         /\ SumNumerators(normed) > 0
    /\ \A i \in SpikesAt :
         \* the spike of bin b (from 0) is at (b + 1) / 10: 10 * (b + 1) hundredths
         sparkline[i][2] = 10 * Cardinality({j \in SpikesAt : j <= i})
    /\ hpc = "done" => Cardinality(SpikesAt) = 10

\* a finished sparkline of one value given several times
C7_Witness ==
    /\ hpc = "done"
    /\ Len(hdata) >= 2
    /\ \A i \in 1..Len(hdata) : hdata[i] = hdata[1]
    /\ \E i \in 1..Len(normed) : normed[i][1] = Len(hdata)


\* the last file read so far that is of machine m
LastFileOf(m) ==
    loaded[CHOOSE i \in 1..Len(loaded) :
              /\ machine_name_of(read_krun_results_file(loaded[i])) = m
              /\ \A j \in (i + 1)..Len(loaded) :
                   machine_name_of(read_krun_results_file(loaded[j])) # m]

WindowOf(path) == read_krun_results_file(path).window_size

WindowMismatch ==
    pc = "failed" /\ error = "AssertionError: different window sizes"

(***************************************************************************)
(* C11.  The mapping get_data_dictionaries builds holds one result set per *)
(* machine name, that of the last file read for the machine, so that only  *)
(* that file's keys are aggregated; and every file read, replaced or not,  *)
(* has had its window_size compared with that of the first file read: a    *)
(* file that differs is the last one read, and the run failed on it.       *)
(***************************************************************************)
C11_LastFilePerMachine ==
    /\ \A i \in 1..Len(data_dictionary) : \A j \in 1..Len(data_dictionary) :
         data_dictionary[i][1] = data_dictionary[j][1] => i = j
    /\ NameSet(data_dictionary) =
         {machine_name_of(read_krun_results_file(loaded[i])) :
             i \in 1..Len(loaded)}
    /\ \A i \in 1..Len(data_dictionary) :
         data_dictionary[i][2] =
             read_krun_results_file(LastFileOf(data_dictionary[i][1]))
    /\ \A i \in 1..Len(visited) :
         visited[i][2] \in
             DOMAIN read_krun_results_file(LastFileOf(visited[i][1])).all_outliers
    /\ Aggregated =>
         \A p \in MachineKeyPairs :
             \E i \in 1..Len(visited) :
                 visited[i] = <<data_dictionary[p[1]][1], p[2]>>
    /\ loaded # <<>> => window_size = <<WindowOf(loaded[1])>>
    /\ \A i \in 1..Len(loaded) :
         WindowOf(loaded[i]) # WindowOf(loaded[1])
            => WindowMismatch /\ i = Len(loaded)
    /\ WindowMismatch => WindowOf(loaded[Len(loaded)]) # WindowOf(loaded[1])

\* two different files of one machine were read and the later one, alone,
\* was aggregated
C11_Witness ==
    /\ pc = "done"
    /\ Len(loaded) = 2
    /\ loaded[1] # loaded[2]
    /\ Len(data_dictionary) = 1
    /\ data_dictionary[1][2] = read_krun_results_file(loaded[2])
    /\ data_dictionary[1][2] # read_krun_results_file(loaded[1])
    /\ visited # <<>>

=============================================================================
